---- MODULE Spec2Model ----
(***************************************************************************)
(* Model of the retry-dispatch engine of spiritoffire:                     *)
(*   core/queue_manager.py   QueueManager (queue, stop event, start loop)  *)
(*   models/queue_data.py    QueueData (the retry envelope, __call__)      *)
(*   workers/__init__.py     Worker (on_start, task, on_stop)              *)
(* The consumer loop of QueueManager.start is modelled statement by        *)
(* statement (pc), producers, the clock and the stop event run             *)
(* concurrently with it.  QueueManager.get_instance is modelled statement  *)
(* by statement for a set of calling threads.                              *)
(*   core/mongo_database.py  MongoDatabase (lazy client, get_database)     *)
(*   adapters/*.py           PublicationAdapter, SubscriptionAdapter (add, *)
(*                           exists) over a collection of documents        *)
(***************************************************************************)
EXTENDS Integers, Sequences, FiniteSets, TLC

\* ------------------------------------------------------------ bounds ----
MaxRetry == 1        \* retry_count and max_retry of an envelope are in 0..MaxRetry
MaxTime  == 1        \* the clock runs over 0..MaxTime
MaxPuts  == 2        \* number of queue.put calls made by producers
MaxRuns  == 2        \* number of calls of start()
MaxFaults == 1       \* number of failures of the queue primitive
MaxCalls == 3        \* number of calls of get_instance()
MaxAdds  == 3        \* number of calls of add() on the adapters
MaxDbCalls == 4      \* number of calls of get_database()

\* ------------------------------------------------------------- items ----
\* Envelope objects (QueueData instances); the queue holds references.
\* e1 is constructed with explicit field values, e2 with the defaults.
Envelopes == {"e1", "e2"}

\* queue_data.py line 11: retry_count: int = 0
DefaultRetryCount == 0

\* queue_data.py line 12: max_retry: int = 3
DefaultMaxRetry == 3

\* queue_data.py line 13: next_attempt: datetime = datetime.now(), evaluated
\* once, when the class is defined: before every instant the loop reads.
ImportTime == -1

\* The sentinel (an instance of StopItem).
StopItem == "StopItem"

\* An item that is neither a StopItem nor a QueueData.
NoneItem == "None"

Items == Envelopes \cup {StopItem, NoneItem}

\* A callable that is not a QueueData (the MagicMock of the tests).
MockItem == "Mock"

\* The items that have a __call__.
Callables == Envelopes \cup {MockItem}

\* The threads that call QueueManager.get_instance().
Threads == {"t1", "t2"}

\* cls._instance before the first construction (None); instances are 1, 2, ...
NoInstance == 0

\* isinstance(item, QueueData)
IsQueueData(item) == item \in Envelopes

\* Value of `cur` when no envelope is being executed.
NoEnv == "-"

Hooks == {"on_start", "task", "on_stop"}

\* The fields of a QueueData; the worker of envelope e is the worker e.
QueueData == [worker : Envelopes,
              retry_count : 0..MaxRetry,
              max_retry : 0..MaxRetry,
              next_attempt : 0..MaxTime]

\* QueueData(worker=w): every other field takes its default.
DefaultQueueData(w) == [worker |-> w,
                        retry_count |-> DefaultRetryCount,
                        max_retry |-> DefaultMaxRetry,
                        next_attempt |-> ImportTime]

\* ------------------------------------------------- stored documents ----
\* Python's None.
PyNone == "None"

\* A field that a stored document does not have.
Missing == "missing"

Adapters == {"publication", "subscription"}

\* The values of the fields of the items passed to add().
ItemIds == {PyNone, "a"}
CallbackUrls == {"u1", "u2"}
Targets == {PyNone, "t1"}

\* A Publication or Subscription as the adapters read it: id (alias _id),
\* target, and callback_url (read only by the publication adapter).
AdapterItems == [id : ItemIds, callback_url : CallbackUrls, target : Targets]

\* The hexadecimal string of the n-th ObjectId the server generates.
OidHex(n) == <<"oid1", "oid2", "oid3", "oid4", "oid5", "oid6">>[n]

\* str(x) of an identifier: of an ObjectId its hexadecimal string, of a
\* str the string itself.
StrOf(x) == x.val

\* The names of the databases asked for.
DbNames == {"app1", "app2", "app3"}

\* Value of MongoDatabase.client while it is None; a client is the pair of
\* its number and its URI.
NoClient == <<>>

\* What exists() returns when no document matches (None).
NoDocument == [_id |-> [kind |-> "none", val |-> PyNone],
               callback_url |-> Missing, target |-> Missing]

\* Value of `addCall` before the first add(); after it, the pair of the
\* adapter and the item.
NoCall == <<>>

\* Value of `mongo` before MongoDatabase(...) is constructed; after it, the
\* pair of the username and the password.
NoMongo == <<>>

VARIABLES
    queue,      \* QueueManager.queue: FIFO of items
    stop,       \* QueueManager.stop: the Event, TRUE when set
    envs,       \* the fields of every QueueData object
    now,        \* datetime.now()
    pc,         \* position of the consumer in start()
    cur,        \* the envelope being executed (item of line 41), or NoEnv
    why,        \* how the loop last ended: "", "StopItem" or "stop"
    ended,      \* how the last call of start() that returned ended, "" if none
    runs,       \* number of calls of start() so far
    q0,         \* the queue at the last call of start()
    t0,         \* the time of the last call of start()
    puts,       \* number of queue.put calls by producers so far
    execs,      \* execs[i]: number of executions of i (calls item() of line 41)
    dispatched, \* retry_count of cur when its execution was entered, else -1
    hooks,      \* the hook calls made in the current iteration of the loop
    outcome,    \* of item() in this iteration: "none", "running", "ok", "raised"
    errors,     \* number of logger.error records
    faults,     \* number of failures of queue.get and queue.put so far
    instance,   \* QueueManager._instance
    created,    \* number of QueueManager objects constructed so far
    gpc,        \* gpc[t]: position of thread t in get_instance()
    fresh,      \* fresh[t]: the object t has constructed and not yet stored
    ret,        \* ret[t]: what the last get_instance() of t returned
    ncalls,     \* number of get_instance() calls so far
    overlapped, \* TRUE once two get_instance() calls have overlapped
    store       \* the state of the adapters and of the MongoDatabase (below)

coll     == store.coll      \* coll[a]: the documents of the collection of adapter a
oids     == store.oids      \* number of ObjectIds generated by the server so far
addCall  == store.addCall   \* the adapter and the item of the last add(), or NoCall
addRet   == store.addRet    \* what the last add() returned or raised
nadds    == store.nadds     \* number of add() calls so far
mongo    == store.mongo     \* the MongoDatabase object: its username and password
client   == store.client    \* MongoDatabase.client
nclients == store.nclients  \* number of MongoClient objects constructed so far
dbs      == store.dbs       \* the client and the name of each database returned

engineVars == <<queue, stop, envs, now, pc, cur, why, ended, runs, q0, t0, puts,
                execs, dispatched, hooks, outcome, errors, faults>>

singletonVars == <<instance, created, gpc, fresh, ret, ncalls, overlapped>>

storeVars == <<store>>

otherVars == <<faults, singletonVars, storeVars>>

vars == <<engineVars, singletonVars, storeVars>>

histVars == <<execs, dispatched, hooks, outcome, errors>>
runVars  == <<ended, runs, q0, t0>>

\* ------------------------------------------------------------- Init -----
\* QueueManager.__init__: an empty queue and a cleared event.  The
\* envelopes are constructed by the producers with any field values.
Init ==
    /\ queue = <<>>
    /\ stop = FALSE
    /\ \E d \in QueueData :
          /\ d.worker = "e1"
          /\ envs = [e \in Envelopes |-> IF e = "e1" THEN d ELSE DefaultQueueData(e)]
    /\ now = 0
    /\ pc = "idle"
    /\ cur = NoEnv
    /\ why = ""
    /\ ended = ""
    /\ runs = 0
    /\ q0 = <<>>
    /\ t0 = 0
    /\ puts = 0
    /\ execs = [i \in Callables |-> 0]
    /\ dispatched = -1
    /\ hooks = <<>>
    /\ outcome = "none"
    /\ errors = 0
    /\ faults = 0
    /\ instance = NoInstance
    /\ created = 0
    /\ gpc = [t \in Threads |-> "out"]
    /\ fresh = [t \in Threads |-> NoInstance]
    /\ ret = [t \in Threads |-> NoInstance]
    /\ ncalls = 0
    /\ overlapped = FALSE
    /\ store = [coll |-> [a \in Adapters |-> <<>>],
                oids |-> 0,
                addCall |-> NoCall,
                addRet |-> PyNone,
                nadds |-> 0,
                mongo |-> NoMongo,
                client |-> NoClient,
                nclients |-> 0,
                dbs |-> <<>>]

\* ----------------------------------------------------- environment -----
\* A producer calls queue.put(item).
Put(item) ==
    /\ puts < MaxPuts
    /\ queue' = Append(queue, item)
    /\ puts' = puts + 1
    /\ UNCHANGED <<stop, envs, now, pc, cur, why, runVars, histVars>>
    /\ UNCHANGED otherVars

\* Variant of SetStop that also puts a StopItem on the queue.
SetStopWithSentinel ==
    /\ ~stop
    /\ stop' = TRUE
    /\ queue' = Append(queue, StopItem)
    /\ UNCHANGED <<envs, now, pc, cur, why, runVars, puts, histVars>>
    /\ UNCHANGED otherVars

\* Some thread calls stop.set().
SetStop ==
    /\ ~stop
    /\ stop' = TRUE
    /\ UNCHANGED <<queue, envs, now, pc, cur, why, runVars, puts, histVars>>
    /\ UNCHANGED otherVars

\* Wall-clock time advances.
Tick ==
    /\ now < MaxTime
    /\ now' = now + 1
    /\ UNCHANGED <<queue, stop, envs, pc, cur, why, runVars, puts, histVars>>
    /\ UNCHANGED otherVars

\* ------------------------------------------------- QueueManager.start ---
\* start() is called on the consumer thread: the first time, or again after
\* an earlier call has returned.
Start ==
    /\ pc \in {"idle", "done"}
    /\ runs < MaxRuns
    /\ pc' = "check"
    /\ runs' = runs + 1
    /\ q0' = queue
    /\ t0' = now
    /\ why' = ""
    /\ hooks' = <<>>
    /\ outcome' = "none"
    /\ UNCHANGED <<queue, stop, envs, now, cur, ended, puts, execs, dispatched, errors>>
    /\ UNCHANGED otherVars

\* Variant of LoopCond that does not look at the stop event (while True).
LoopCondIgnoresStop ==
    /\ pc = "check"
    /\ pc' = "get"
    /\ hooks' = <<>>
    /\ outcome' = "none"
    /\ UNCHANGED <<queue, stop, envs, now, cur, why, runVars, puts, execs, dispatched,
                   errors>>
    /\ UNCHANGED otherVars

\* line 24: while not self.stop.is_set()
LoopCond ==
    /\ pc = "check"
    /\ IF stop THEN pc' = "done" /\ why' = "stop" /\ ended' = "stop"
               ELSE pc' = "get" /\ why' = why /\ ended' = ended
    /\ hooks' = <<>>
    /\ outcome' = "none"
    /\ UNCHANGED <<queue, stop, envs, now, cur, runs, q0, t0, puts, execs, dispatched,
                   errors>>
    /\ UNCHANGED otherVars

\* Variant of GetStopItem without the break of line 30.
GetStopItemNoBreak ==
    /\ pc = "get"
    /\ queue # <<>>
    /\ Head(queue) = StopItem
    /\ queue' = Tail(queue)
    /\ pc' = "check"
    /\ UNCHANGED <<stop, envs, now, cur, why, runVars, puts, histVars>>
    /\ UNCHANGED otherVars

\* Variant of GetStopItem that empties the queue before it breaks.
GetStopItemDrains ==
    /\ pc = "get"
    /\ queue # <<>>
    /\ Head(queue) = StopItem
    /\ queue' = <<>>
    /\ pc' = "done"
    /\ why' = "StopItem"
    /\ ended' = "StopItem"
    /\ UNCHANGED <<stop, envs, now, cur, runs, q0, t0, puts, histVars>>
    /\ UNCHANGED otherVars

\* lines 26-30: the blocking get returns a StopItem; break.
GetStopItem ==
    /\ pc = "get"
    /\ queue # <<>>
    /\ Head(queue) = StopItem
    /\ queue' = Tail(queue)
    /\ pc' = "done"
    /\ why' = "StopItem"
    /\ ended' = "StopItem"
    /\ UNCHANGED <<stop, envs, now, cur, runs, q0, t0, puts, histVars>>
    /\ UNCHANGED otherVars

\* Variant of GetInvalid that puts the rejected item back on the queue.
GetInvalidRequeue ==
    /\ pc = "get"
    /\ queue # <<>>
    /\ Head(queue) # StopItem
    /\ ~IsQueueData(Head(queue))
    /\ queue' = Append(Tail(queue), Head(queue))
    /\ errors' = errors + 1
    /\ pc' = "check"
    /\ UNCHANGED <<stop, envs, now, cur, why, runVars, puts, execs, dispatched,
                   hooks, outcome>>
    /\ UNCHANGED otherVars

\* lines 26, 32-34: the item is not a QueueData; log an error and continue.
GetInvalid ==
    /\ pc = "get"
    /\ queue # <<>>
    /\ Head(queue) # StopItem
    /\ ~IsQueueData(Head(queue))
    /\ queue' = Tail(queue)
    /\ errors' = errors + 1
    /\ pc' = "check"
    /\ UNCHANGED <<stop, envs, now, cur, why, runVars, puts, execs, dispatched,
                   hooks, outcome>>
    /\ UNCHANGED otherVars

\* Variant of Exhausted that allows one attempt more.
ExhaustedOffByOne(e) == envs[e].retry_count > envs[e].max_retry + 1

\* line 36: item.retry_count > item.max_retry
Exhausted(e) == envs[e].retry_count > envs[e].max_retry

\* Variant of Due that compares with the time at which start() was called.
DueAtStart(e) == t0 > envs[e].next_attempt

\* line 39: datetime.now() > item.next_attempt
Due(e) == now > envs[e].next_attempt

\* lines 26, 36-37: the envelope has used up its retries; continue.
GetExhausted ==
    /\ pc = "get"
    /\ queue # <<>>
    /\ IsQueueData(Head(queue))
    /\ Exhausted(Head(queue))
    /\ queue' = Tail(queue)
    /\ pc' = "check"
    /\ UNCHANGED <<stop, envs, now, cur, why, runVars, puts, histVars>>
    /\ UNCHANGED otherVars

\* Variant of GetNotDue that drops the envelope instead of re-appending it.
GetNotDueDrop ==
    /\ pc = "get"
    /\ queue # <<>>
    /\ IsQueueData(Head(queue))
    /\ ~Exhausted(Head(queue))
    /\ ~Due(Head(queue))
    /\ queue' = Tail(queue)
    /\ pc' = "check"
    /\ UNCHANGED <<stop, envs, now, cur, why, runVars, puts, histVars>>
    /\ UNCHANGED otherVars

\* Variant of GetNotDue that goes straight to the next get() after the put,
\* without evaluating the loop condition.
GetNotDueNoRecheck ==
    /\ pc = "get"
    /\ queue # <<>>
    /\ IsQueueData(Head(queue))
    /\ ~Exhausted(Head(queue))
    /\ ~Due(Head(queue))
    /\ queue' = Append(Tail(queue), Head(queue))
    /\ pc' = "get"
    /\ UNCHANGED <<stop, envs, now, cur, why, runVars, puts, histVars>>
    /\ UNCHANGED otherVars

\* lines 26, 39, 42-43: the envelope is not due; put it back on the queue.
GetNotDue ==
    /\ pc = "get"
    /\ queue # <<>>
    /\ IsQueueData(Head(queue))
    /\ ~Exhausted(Head(queue))
    /\ ~Due(Head(queue))
    /\ queue' = Append(Tail(queue), Head(queue))
    /\ pc' = "check"
    /\ UNCHANGED <<stop, envs, now, cur, why, runVars, puts, histVars>>
    /\ UNCHANGED otherVars

\* lines 26, 39-41: the envelope is due; item() is entered.
GetDue ==
    /\ pc = "get"
    /\ queue # <<>>
    /\ IsQueueData(Head(queue))
    /\ ~Exhausted(Head(queue))
    /\ Due(Head(queue))
    /\ queue' = Tail(queue)
    /\ cur' = Head(queue)
    /\ execs' = [execs EXCEPT ![Head(queue)] = @ + 1]
    /\ dispatched' = envs[Head(queue)].retry_count
    /\ outcome' = "running"
    /\ pc' = "on_start"
    /\ UNCHANGED <<stop, envs, now, why, runVars, puts, hooks, errors>>
    /\ UNCHANGED otherVars

\* Variant of HookCall that passes the number of the attempt being made.
HookCallNextAttempt(e, h) ==
    IF h = "task" THEN <<envs[e].worker, h, envs[e].retry_count + 1>>
                  ELSE <<envs[e].worker, h>>

\* The record of one hook call: the worker, the hook and its arguments.
HookCall(e, h) ==
    IF h = "task" THEN <<envs[e].worker, h, envs[e].retry_count>>
                  ELSE <<envs[e].worker, h>>

\* Variant of CallHook without the try/except of start(): the exception
\* leaves start().
CallHookUncaught(h, next) ==
    /\ pc = h
    /\ hooks' = Append(hooks, HookCall(cur, h))
    /\ \E raises \in BOOLEAN :
          IF raises
            THEN /\ outcome' = "raised"
                 /\ cur' = NoEnv
                 /\ dispatched' = -1
                 /\ errors' = errors
                 /\ pc' = "done"
            ELSE /\ errors' = errors
                 /\ IF next = "check"
                      THEN outcome' = "ok" /\ cur' = NoEnv /\ dispatched' = -1
                      ELSE UNCHANGED <<outcome, cur, dispatched>>
                 /\ pc' = next
    /\ UNCHANGED <<queue, stop, envs, now, why, runVars, puts, execs>>
    /\ UNCHANGED otherVars

\* Variant of CallHook whose except clause does not log.
CallHookSilent(h, next) ==
    /\ pc = h
    /\ hooks' = Append(hooks, HookCall(cur, h))
    /\ \E raises \in BOOLEAN :
          IF raises
            THEN /\ outcome' = "raised"
                 /\ cur' = NoEnv
                 /\ dispatched' = -1
                 /\ errors' = errors
                 /\ pc' = "check"
            ELSE /\ errors' = errors
                 /\ IF next = "check"
                      THEN outcome' = "ok" /\ cur' = NoEnv /\ dispatched' = -1
                      ELSE UNCHANGED <<outcome, cur, dispatched>>
                 /\ pc' = next
    /\ UNCHANGED <<queue, stop, envs, now, why, runVars, puts, execs>>
    /\ UNCHANGED otherVars

\* Variant of CallHook in which the except clause of start() puts the
\* envelope back on the queue.
CallHookRequeues(h, next) ==
    /\ pc = h
    /\ hooks' = Append(hooks, HookCall(cur, h))
    /\ \E raises \in BOOLEAN :
          IF raises
            THEN /\ outcome' = "raised"
                 /\ cur' = NoEnv
                 /\ dispatched' = -1
                 /\ errors' = errors + 1
                 /\ queue' = Append(queue, cur)
                 /\ pc' = "check"
            ELSE /\ errors' = errors
                 /\ queue' = queue
                 /\ IF next = "check"
                      THEN outcome' = "ok" /\ cur' = NoEnv /\ dispatched' = -1
                      ELSE UNCHANGED <<outcome, cur, dispatched>>
                 /\ pc' = next
    /\ UNCHANGED <<stop, envs, now, why, runVars, puts, execs>>
    /\ UNCHANGED otherVars

\* One hook of the worker is called (QueueData.__call__, lines 17-19).  The
\* hook either returns, and __call__ goes on to `next`, or raises: the
\* exception leaves __call__ and is caught by start() (lines 44-45), which
\* logs it and goes back to line 24.
CallHook(h, next) ==
    /\ pc = h
    /\ hooks' = Append(hooks, HookCall(cur, h))
    /\ \E raises \in BOOLEAN :
          IF raises
            THEN /\ outcome' = "raised"
                 /\ cur' = NoEnv
                 /\ dispatched' = -1
                 /\ errors' = errors + 1
                 /\ pc' = "check"
            ELSE /\ errors' = errors
                 /\ IF next = "check"
                      THEN outcome' = "ok" /\ cur' = NoEnv /\ dispatched' = -1
                      ELSE UNCHANGED <<outcome, cur, dispatched>>
                 /\ pc' = next
    /\ UNCHANGED <<queue, stop, envs, now, why, runVars, puts, execs>>
    /\ UNCHANGED otherVars

\* Variant of OnStart in which __call__ goes from on_start() straight to
\* on_stop().
OnStartSkipsTask == CallHook("on_start", "on_stop")

\* queue_data.py line 17: self.worker.on_start()
OnStart == CallHook("on_start", "task")

\* queue_data.py line 18: self.worker.task(self.retry_count)
Task == CallHook("task", "on_stop")

\* queue_data.py line 19: self.worker.on_stop()
OnStop == CallHook("on_stop", "check")

\* The steps of the consumer thread inside start().
Consumer ==
    \/ LoopCond
    \/ GetStopItem
    \/ GetInvalid
    \/ GetExhausted
    \/ GetNotDue
    \/ GetDue
    \/ OnStart
    \/ Task
    \/ OnStop

Next ==
    \/ \E item \in Items : Put(item)
    \/ SetStop
    \/ Tick
    \/ Start
    \/ Consumer

Spec == Init /\ [][Next]_vars

\* The consumer thread keeps running and the clock keeps advancing.
FairSpec == Spec /\ WF_vars(Consumer) /\ WF_vars(Tick)

\* ------------------------------------- failures of the queue primitive ---
\* Variant of GetFaults in which the exception leaves start().
GetFaultsFatal ==
    /\ pc = "get"
    /\ faults < MaxFaults
    /\ faults' = faults + 1
    /\ pc' = "done"
    /\ UNCHANGED <<queue, stop, envs, now, cur, why, runVars, puts, histVars>>
    /\ UNCHANGED <<singletonVars, storeVars>>

\* lines 25-26, 44-45: queue.get() raises an Exception; nothing is taken
\* off the queue, the except clause logs it and the loop goes on.
GetFaults ==
    /\ pc = "get"
    /\ faults < MaxFaults
    /\ faults' = faults + 1
    /\ errors' = errors + 1
    /\ pc' = "check"
    /\ UNCHANGED <<queue, stop, envs, now, cur, why, runVars, puts, execs, dispatched,
                   hooks, outcome>>
    /\ UNCHANGED <<singletonVars, storeVars>>

\* lines 26, 39, 42-45: the envelope is not due and queue.put() raises an
\* Exception; the envelope taken off the queue is not put back, the except
\* clause logs the exception and the loop goes on.
PutFaults ==
    /\ pc = "get"
    /\ queue # <<>>
    /\ IsQueueData(Head(queue))
    /\ ~Exhausted(Head(queue))
    /\ ~Due(Head(queue))
    /\ faults < MaxFaults
    /\ faults' = faults + 1
    /\ queue' = Tail(queue)
    /\ errors' = errors + 1
    /\ pc' = "check"
    /\ UNCHANGED <<stop, envs, now, cur, why, runVars, puts, execs, dispatched,
                   hooks, outcome>>
    /\ UNCHANGED <<singletonVars, storeVars>>

\* The engine with a queue whose get() and put() may raise.
NextFault ==
    \/ Next
    \/ GetFaults
    \/ PutFaults

FaultSpec == Init /\ [][NextFault]_vars

\* ------------------------------------------ QueueManager.get_instance ---
\* Thread t calls QueueManager.get_instance().
BeginCall(t) ==
    /\ gpc[t] = "out"
    /\ ncalls < MaxCalls
    /\ gpc' = [gpc EXCEPT ![t] = "test"]
    /\ ncalls' = ncalls + 1
    /\ overlapped' = (overlapped \/ \E u \in Threads \ {t} : gpc[u] # "out")
    /\ UNCHANGED <<instance, created, fresh, ret>>
    /\ UNCHANGED <<engineVars, storeVars>>

\* Variant of TestInstance that constructs on every call.
TestInstanceAlways(t) ==
    /\ gpc[t] = "test"
    /\ gpc' = [gpc EXCEPT ![t] = "construct"]
    /\ UNCHANGED <<instance, created, fresh, ret, ncalls, overlapped>>
    /\ UNCHANGED <<engineVars, storeVars>>

\* line 15: if cls._instance is None
TestInstance(t) ==
    /\ gpc[t] = "test"
    /\ gpc' = [gpc EXCEPT ![t] = IF instance = NoInstance THEN "construct" ELSE "return"]
    /\ UNCHANGED <<instance, created, fresh, ret, ncalls, overlapped>>
    /\ UNCHANGED <<engineVars, storeVars>>

\* line 16, right-hand side: QueueManager() builds a new object (lines 19-21).
Construct(t) ==
    /\ gpc[t] = "construct"
    /\ created' = created + 1
    /\ fresh' = [fresh EXCEPT ![t] = created + 1]
    /\ gpc' = [gpc EXCEPT ![t] = "assign"]
    /\ UNCHANGED <<instance, ret, ncalls, overlapped>>
    /\ UNCHANGED <<engineVars, storeVars>>

\* line 16, the store: cls._instance = <the new object>
Assign(t) ==
    /\ gpc[t] = "assign"
    /\ instance' = fresh[t]
    /\ fresh' = [fresh EXCEPT ![t] = NoInstance]
    /\ gpc' = [gpc EXCEPT ![t] = "return"]
    /\ UNCHANGED <<created, ret, ncalls, overlapped>>
    /\ UNCHANGED <<engineVars, storeVars>>

\* line 17: return cls._instance
Return(t) ==
    /\ gpc[t] = "return"
    /\ ret' = [ret EXCEPT ![t] = instance]
    /\ gpc' = [gpc EXCEPT ![t] = "out"]
    /\ UNCHANGED <<instance, created, fresh, ncalls, overlapped>>
    /\ UNCHANGED <<engineVars, storeVars>>

SingletonNext ==
    \E t \in Threads :
        \/ BeginCall(t)
        \/ TestInstance(t)
        \/ Construct(t)
        \/ Assign(t)
        \/ Return(t)

SingletonSpec == Init /\ [][SingletonNext]_vars

\* The engine fed as test_start_processes_queue_items feeds it: the producers
\* put plain callables (and StopItems) on the queue.
\* ------------------------------------------------------- the adapters ---
\* item.model_dump(by_alias=True, exclude_none=True): the field id is dumped
\* as _id; a field that is None is left out.
ModelDump(item) ==
    [_id |-> IF item.id = PyNone THEN [kind |-> "missing", val |-> Missing]
                                 ELSE [kind |-> "str", val |-> item.id],
     callback_url |-> item.callback_url,
     target |-> IF item.target = PyNone THEN Missing ELSE item.target]

\* A query value matches a field of a document: None matches a null or
\* missing field, any other value matches the equal value.
FieldMatches(q, v) == IF q = PyNone THEN v \in {PyNone, Missing} ELSE v = q

\* The query of exists(): publication_adapter.py line 24 (callback_url and
\* target), subscription_adapter.py line 24 (target).
Matches(a, item, doc) ==
    IF a = "publication"
      THEN /\ FieldMatches(item.callback_url, doc.callback_url)
           /\ FieldMatches(item.target, doc.target)
      ELSE FieldMatches(item.target, doc.target)

\* find_one: the positions of the documents the query matches.
Found(a, item) == {i \in 1..Len(coll[a]) : Matches(a, item, coll[a][i])}

\* exists(item): the first matching document, or None.
Exists(a, item) ==
    IF Found(a, item) = {} THEN NoDocument
    ELSE coll[a][CHOOSE i \in Found(a, item) : \A j \in Found(a, item) : i <= j]

\* add(item), lines 11-16: when no document matches, insert_one stores the
\* dumped item, under the given _id or under a new ObjectId, and add returns
\* str(inserted_id); insert_one raises DuplicateKeyError when the given _id
\* is already in the collection.  When a document matches, add returns
\* item.id.
Add(a, item) ==
    /\ nadds < MaxAdds
    /\ LET oid == [kind |-> "ObjectId", val |-> OidHex(oids + 1)]
           called == [store EXCEPT !.nadds = nadds + 1,
                                   !.addCall = <<a, item>>]
       IN  store' =
             IF Exists(a, item) = NoDocument
               THEN IF item.id = PyNone
                      THEN [called EXCEPT
                              !.oids = oids + 1,
                              !.coll[a] = Append(@, [ModelDump(item) EXCEPT !._id = oid]),
                              !.addRet = StrOf(oid)]
                      ELSE IF \E i \in 1..Len(coll[a]) :
                                 coll[a][i]._id = ModelDump(item)._id
                             THEN [called EXCEPT !.addRet = "DuplicateKeyError"]
                             ELSE [called EXCEPT
                                     !.coll[a] = Append(@, ModelDump(item)),
                                     !.addRet = StrOf(ModelDump(item)._id)]
               ELSE [called EXCEPT !.addRet = item.id]
    /\ UNCHANGED <<engineVars, singletonVars>>

NextAdapter == \E a \in Adapters, item \in AdapterItems : Add(a, item)

AdapterSpec == Init /\ [][NextAdapter]_vars

\* ------------------------------------------------------ MongoDatabase ---
\* MongoDatabase(username, password, host, port), lines 8-13.
NewMongoDatabase(username, password) ==
    /\ mongo = NoMongo
    /\ store' = [store EXCEPT
                    !.mongo = <<username, password>>,
                    !.client = NoClient]
    /\ UNCHANGED <<engineVars, singletonVars>>

\* get_client(), lines 15-26: the parts joined into the URI of the new
\* MongoClient; the credentials are part of it when both are non-empty.
MongoUri ==
    <<"mongodb://">>
      \o (IF mongo[1] # "" /\ mongo[2] # ""
            THEN <<mongo[1], ":", mongo[2], "@">>
            ELSE <<>>)
      \o <<"host", ":", "port">>

\* Variant of GetDatabase that constructs a client on every call.
GetDatabaseNoReuse(name) ==
    /\ mongo # NoMongo
    /\ Len(dbs) < MaxDbCalls
    /\ LET new == <<nclients + 1, MongoUri>>
       IN  store' = [store EXCEPT
                       !.client = new,
                       !.nclients = nclients + 1,
                       !.dbs = Append(@, [client |-> new, name |-> name])]
    /\ UNCHANGED <<engineVars, singletonVars>>

\* get_database(name), lines 28-32.
GetDatabase(name) ==
    /\ mongo # NoMongo
    /\ Len(dbs) < MaxDbCalls
    /\ LET new == <<nclients + 1, MongoUri>>
       IN  store' =
             IF client = NoClient
               THEN [store EXCEPT
                       !.client = new,
                       !.nclients = nclients + 1,
                       !.dbs = Append(@, [client |-> new, name |-> name])]
               ELSE [store EXCEPT
                       !.dbs = Append(@, [client |-> client, name |-> name])]
    /\ UNCHANGED <<engineVars, singletonVars>>

NextMongo ==
    \/ \E username \in {"", "user"}, password \in {"", "pw"} :
          NewMongoDatabase(username, password)
    \/ \E name \in DbNames : GetDatabase(name)

MongoSpec == Init /\ [][NextMongo]_vars

NextMock ==
    \/ Put(MockItem)
    \/ Put(StopItem)
    \/ SetStop
    \/ Tick
    \/ Start
    \/ LoopCond
    \/ GetStopItem
    \/ GetInvalid

MockSpec == Init /\ [][NextMock]_vars

\* ------------------------------------------------ the contract's terms ---
\* The retry budget of the envelope contract: attempt_count <= attempt_ceiling.
InBudget(e) == envs[e].retry_count <= envs[e].max_retry

\* is_exhausted() of the envelope contract: attempt_count > attempt_ceiling.
IsExhausted(e) == envs[e].retry_count > envs[e].max_retry

\* is_eligible(t) of the envelope contract.
IsEligible(e, t) == InBudget(e) /\ t >= envs[e].next_attempt

\* The consumer takes an item off the queue in this step.
Dequeues == pc = "get" /\ pc' # "get"

\* The consumer takes envelope e off the queue in this step.
DequeuesEnv(e) == Dequeues /\ queue # <<>> /\ Head(queue) = e

\* A hook of a worker is called in this step.
HookStep == pc \in Hooks /\ hooks' # hooks

\* The execution of envelope e ends in this step (item() returns or raises).
EndsExec(e) == cur = e /\ cur' = NoEnv

\* start() is running.
Running == pc \notin {"idle", "done"}

Range(s) == {s[i] : i \in 1..Len(s)}

\* N distinct envelopes followed by one StopItem were on the queue when
\* start() was called.
SentinelScenario ==
    /\ q0 # <<>>
    /\ q0[Len(q0)] = StopItem
    /\ \A i \in 1..(Len(q0) - 1) : q0[i] \in Envelopes
    /\ \A i, j \in 1..(Len(q0) - 1) : q0[i] = q0[j] => i = j

\* The hook calls of a complete execution of e with attempt count n.
FullExecution(e, n) == <<<<e, "on_start">>, <<e, "task", n>>, <<e, "on_stop">>>>

IsPrefix(s, t) == Len(s) <= Len(t) /\ \A i \in 1..Len(s) : s[i] = t[i]

\* Hook h has been called in the current execution.
Called(h) == \E i \in 1..Len(hooks) : hooks[i][2] = h

TaskCalls(e) == SelectSeq(hooks, LAMBDA c : c[1] = e /\ c[2] = "task")

\* ------------------------------------------------------------ claims ----

\* C1 (failure isolation): when the execution of an envelope has just raised
\* and the next item on the queue is an envelope b that is within its retry
\* budget and due, the loop goes on and executes b (unless the stop event
\* is set first): a raising task never ends the consumer loop.
C1_FailureIsolation ==
    \A b \in Envelopes :
        (/\ outcome = "raised" /\ why = "" /\ ~stop
         /\ queue # <<>> /\ Head(queue) = b
         /\ InBudget(b) /\ now > envs[b].next_attempt)
        ~> ((pc = "on_start" /\ cur = b) \/ stop)

\* e1 raised, one error was logged, and e2, enqueued behind it, is executing.
C1_Witness ==
    /\ runs = 1 /\ q0 = <<"e1", "e2">>
    /\ execs["e1"] = 1 /\ errors = 1
    /\ pc = "task" /\ cur = "e2"

\* C2 (sentinel termination): when N distinct envelopes followed by one
\* StopItem are on the queue at start(), the loop eventually terminates, and
\* up to then it executes only those N envelopes, each at most once.
C2_SentinelTermination ==
    /\ [](runs = 1 /\ SentinelScenario =>
            \A e \in Envelopes :
                execs[e] <= (IF e \in Range(q0) THEN 1 ELSE 0))
    /\ ((Running /\ SentinelScenario) ~> (pc = "done"))

\* An envelope and the StopItem were queued, the envelope ran once and the
\* loop ended at the StopItem.
C2_Witness ==
    /\ runs = 1 /\ q0 = <<"e2", StopItem>>
    /\ pc = "done" /\ why = "StopItem"
    /\ execs["e2"] = 1 /\ execs["e1"] = 0

\* C3 (eligibility): a dequeued envelope is executed if and only if
\* attempt_count <= attempt_ceiling and now >= not_before.
C3_Eligibility ==
    [][\A e \in Envelopes :
          DequeuesEnv(e) => ((pc' = "on_start" /\ cur' = e) <=> IsEligible(e, now))]_vars

\* C4 (attempt counter): every execution of an envelope increases its
\* retry_count by exactly 1, whether the task returns or raises, and the
\* counter changes at no other time.
C4_AttemptCounter ==
    [][\A e \in Envelopes :
          /\ EndsExec(e) => envs'[e].retry_count = dispatched + 1
          /\ cur # e => envs'[e].retry_count = envs[e].retry_count
          /\ envs'[e].retry_count >= envs[e].retry_count]_vars

\* C5 (retry ceiling): an envelope is executed at most attempt_ceiling + 1
\* times, however often it is put on the queue.
C5_RetryCeiling ==
    \A e \in Envelopes : execs[e] <= envs[e].max_retry + 1

\* C6 (exhausted envelopes are dropped): a dequeued envelope with
\* attempt_count > attempt_ceiling is removed from the queue, no hook of its
\* task is called, it is not put back, and the loop continues.
C6_ExhaustedDropped ==
    [][\A e \in Envelopes :
          (DequeuesEnv(e) /\ IsExhausted(e)) =>
              /\ queue' = Tail(queue)
              /\ pc' = "check"
              /\ UNCHANGED <<cur, execs, hooks, envs, errors>>]_vars

\* An exhausted envelope was the only item queued; it is gone and never ran.
C6_Witness ==
    /\ runs = 1 /\ puts = 1 /\ q0 = <<"e1">> /\ IsExhausted("e1")
    /\ queue = <<>> /\ pc = "check" /\ execs["e1"] = 0

C8_NotDueRequeued ==
    /\ [][\A e \in Envelopes :
              (DequeuesEnv(e) /\ InBudget(e) /\ now < envs[e].next_attempt) =>
                  /\ queue' = Append(Tail(queue), e)
                  /\ envs'[e] = envs[e]
                  /\ pc' = "check"
                  /\ UNCHANGED <<cur, execs, hooks, errors>>]_vars
    /\ [](\A e \in Envelopes : envs[e].next_attempt >= MaxTime => execs[e] = 0)

\* e1 was dequeued before it was due and now stands behind the item that
\* was behind it.
C8_Witness ==
    /\ runs = 1 /\ puts = 2 /\ q0 = <<"e1", NoneItem>>
    /\ InBudget("e1") /\ now < envs["e1"].next_attempt
    /\ queue = <<NoneItem, "e1">> /\ pc = "check" /\ execs["e1"] = 0

\* C9 (failures are caught and logged once): a hook call that raises adds
\* exactly one record to the error log and the loop goes back to its
\* condition; a hook call that returns adds none.
C9_CaughtAndLogged ==
    [][HookStep =>
          IF outcome' = "raised"
            THEN errors' = errors + 1 /\ pc' = "check"
            ELSE errors' = errors /\ pc' # "done"]_vars

\* An execution raised, one error is on the log and the loop is running.
C9_Witness ==
    /\ runs = 1 /\ q0 = <<"e2">> /\ puts = 1
    /\ outcome = "raised" /\ errors = 1 /\ pc = "check"

\* C10 (exactly-once dispatch): on a fresh engine started with one envelope
\* e, within budget and already due, followed by a StopItem, and with the
\* stop event never set, the loop terminates, at the StopItem, having
\* executed e exactly once and logged at most the error of that execution.
\* An execution that ends without raising has called on_start(), task() with
\* the retry_count e had at dispatch, and on_stop(), once each, logs no
\* error and does not put e back on the queue.
C10_ExactlyOnce ==
    /\ [](\A e \in Envelopes :
            (/\ runs = 1 /\ q0 = <<e, StopItem>> /\ pc = "done" /\ ~stop
             /\ InBudget(e) /\ t0 > envs[e].next_attempt) =>
                /\ why = "StopItem"
                /\ execs[e] = 1
                /\ errors <= 1
                /\ puts = 2 => queue = <<>>)
    /\ [][\A e \in Envelopes :
            (EndsExec(e) /\ outcome' = "ok") =>
                /\ hooks' = FullExecution(e, dispatched)
                /\ Len(TaskCalls(e))' = 1
                /\ errors' = errors
                /\ queue' = queue]_vars
    /\ \A e \in Envelopes :
          (Running /\ q0 = <<e, StopItem>>) ~> (pc = "done")

\* e1, due, and a StopItem were queued; e1 ran once, no error was logged
\* and the loop ended at the StopItem with the queue empty.
C10_Witness ==
    /\ runs = 1 /\ q0 = <<"e1", StopItem>> /\ puts = 2 /\ ~stop
    /\ InBudget("e1") /\ t0 > envs["e1"].next_attempt
    /\ pc = "done" /\ why = "StopItem" /\ execs["e1"] = 1
    /\ errors = 0 /\ queue = <<>>

\* C11 (a callable item is called once): when a plain callable was the only
\* item on the queue at start() and start() has taken it off the queue, the
\* callable has been called exactly once.
C11_CallableCalledOnce ==
    (runs = 1 /\ q0 = <<MockItem>> /\ puts = 1 /\ queue = <<>>)
        => execs[MockItem] = 1

\* C12 (singleton, sequential calls): as long as no two calls of
\* get_instance() have overlapped, nothing is constructed before the first
\* call, at most one QueueManager has been constructed, every call has
\* returned that one instance, and a stored instance is never replaced.
C12_SequentialSingleton ==
    /\ [](ncalls = 0 => created = 0 /\ instance = NoInstance)
    /\ [](~overlapped =>
            /\ created <= 1
            /\ \A t \in Threads :
                  ret[t] # NoInstance => created = 1 /\ ret[t] = 1 /\ instance = 1)
    /\ [][(~overlapped' /\ instance # NoInstance) => instance' = instance]_vars

\* Three calls, one after the other, from two threads: one object was
\* constructed and both threads got it.
C12_Witness ==
    /\ ~overlapped /\ ncalls = 3 /\ created = 1 /\ instance = 1
    /\ \A t \in Threads : gpc[t] = "out" /\ ret[t] = 1

\* C13 (singleton under concurrency): under every interleaving of the
\* callers exactly one QueueManager is constructed and all callers receive
\* the same instance.
C13_ConcurrentSingleton ==
    /\ created <= 1
    /\ \A t, u \in Threads :
          (ret[t] # NoInstance /\ ret[u] # NoInstance) => ret[t] = ret[u]

\* C14 (stop at the top of the loop): when the loop condition is evaluated
\* with the stop event set, start() ends without taking anything off the
\* queue or executing anything; the loop never ends while an envelope is
\* being executed, so an execution under way when the event is set is
\* carried through first.
C14_StopAtLoopTop ==
    /\ [][(pc = "check" /\ stop /\ pc' # pc) =>
              (pc' = "done" /\ why' = "stop" /\ queue' = queue /\ execs' = execs)]_vars
    /\ [][(pc \in Hooks /\ pc' # pc) => pc' \in Hooks \cup {"check"}]_vars
    /\ [](pc = "done" => cur = NoEnv)

\* e2 was executed, the event was set meanwhile, and the loop ended at its
\* condition with the StopItem still on the queue.
C14_Witness ==
    /\ runs = 1 /\ puts = 2 /\ q0 = <<"e2", StopItem>>
    /\ pc = "done" /\ why = "stop" /\ stop
    /\ execs["e2"] = 1 /\ queue = <<StopItem>>

\* C15 (stop.set() does not wake the consumer): setting the stop event puts
\* nothing on the queue and does not move the consumer; a consumer blocked
\* in get() on an empty queue stays there, whatever the stop event, until
\* an item is put; once the queue holds an item and the event is set, the
\* loop terminates.
C15_StopDoesNotWake ==
    /\ [][stop' # stop => (queue' = queue /\ pc' = pc)]_vars
    /\ [][(pc = "get" /\ queue = <<>>) => pc' = "get"]_vars
    /\ ((pc = "get" /\ stop /\ queue # <<>>) ~> (pc = "done"))

\* The consumer is blocked on the empty queue with the stop event set.
C15_Witness ==
    /\ runs = 1 /\ q0 = <<>> /\ puts = 0
    /\ pc = "get" /\ queue = <<>> /\ stop

\* C16 (stopped is terminal): once start() has ended on an instance, by a
\* StopItem or by the stop event, the instance takes nothing more off the
\* queue and executes nothing more, also when start() is called again.
C16_StoppedIsTerminal ==
    [][ended # "" => (~Dequeues /\ execs' = execs)]_vars

\* C17 (hook order): the hooks called in an execution are always a prefix
\* of on_start(), task(retry_count), on_stop() of the envelope's worker; an
\* execution that ends without raising has called exactly these three, once
\* each; an execution in which a hook raised ends at that hook and the
\* failure reaches the loop of start(), which logs it.
C17_HookOrder ==
    /\ [](cur # NoEnv =>
            /\ IsPrefix(hooks, FullExecution(cur, envs[cur].retry_count))
            /\ pc \in Hooks
            /\ Len(hooks) < 3)
    /\ [][\A e \in Envelopes :
            EndsExec(e) =>
                /\ hooks' = Append(hooks, HookCall(e, pc))
                /\ IsPrefix(hooks', FullExecution(e, envs[e].retry_count))
                /\ IF outcome' = "ok"
                     THEN Len(hooks') = 3 /\ errors' = errors
                     ELSE /\ outcome' = "raised"
                          /\ errors' = errors + 1
                          /\ pc' = "check"]_vars

\* e1, with retry_count 1, was executed without a failure: its three hooks
\* were called in order, task() with 1.
C17_Witness ==
    /\ envs["e1"].retry_count = 1
    /\ outcome = "ok" /\ pc = "check"
    /\ hooks = <<<<"e1", "on_start">>, <<"e1", "task", 1>>, <<"e1", "on_stop">>>>

\* C18 (on_stop() is always called): an execution in which on_start() was
\* called, and returned so that task() was called, has called on_stop() when
\* it ends, also when task() raised.
C18_OnStopAlways ==
    [][\A e \in Envelopes :
          (EndsExec(e) /\ Called("on_start")' /\ Called("task")') =>
              Called("on_stop")']_vars

C20_NoRequeueAfterFailure ==
    /\ [][\A e \in Envelopes :
            (EndsExec(e) /\ outcome' = "raised") => queue' = queue]_vars
    /\ [](\A e \in Envelopes :
            (puts = 1 /\ execs[e] = 1 /\ outcome = "raised") => queue = <<>>)

\* e1 was the only item put; its execution raised and the queue is empty.
C20_Witness ==
    /\ runs = 1 /\ q0 = <<"e1">> /\ puts = 1
    /\ execs["e1"] = 1 /\ outcome = "raised" /\ pc = "check" /\ queue = <<>>

\* C21 (FIFO dispatch): the consumer only ever takes the head of the queue;
\* what it takes it either removes or, when it is an envelope that is not
\* yet due, moves to the tail, and that is the only re-ordering.  When a and
\* b were the queue at start(), a before b, both within budget and due
\* (is_eligible) from then on, b is not executed before a has been executed
\* and its execution has ended.
C21_FifoDispatch ==
    /\ [][(pc = "get" /\ puts' = puts /\ queue' # queue) =>
              /\ queue # <<>>
              /\ cur = NoEnv
              /\ \/ queue' = Tail(queue)
                 \/ /\ queue' = Append(Tail(queue), Head(queue))
                    /\ Head(queue) \in Envelopes
                    /\ InBudget(Head(queue))
                    /\ ~IsEligible(Head(queue), now)
              /\ cur' # NoEnv => (cur' = Head(queue) /\ queue' = Tail(queue))]_vars
    /\ [](\A a, b \in Envelopes :
            (/\ a # b /\ runs = 1 /\ q0 = <<a, b>>
             /\ IsEligible(a, t0) /\ IsEligible(b, t0)
             /\ execs[b] >= 1) =>
                (execs[a] >= 1 /\ cur # a))

\* C22 (repository dedupe): a collection never holds two documents that
\* match the same uniqueness key, and an add() whose item matches a stored
\* document inserts nothing and returns the identifier of that document.
C22_RepositoryDedupe ==
    /\ [](\A a \in Adapters : \A i, j \in 1..Len(coll[a]) :
            (/\ coll[a][i].target = coll[a][j].target
             /\ a = "publication" => coll[a][i].callback_url = coll[a][j].callback_url)
                => i = j)
    /\ [][nadds' # nadds =>
            LET a == addCall'[1]
                item == addCall'[2]
            IN  Exists(a, item) # NoDocument =>
                    /\ coll' = coll
                    /\ addRet' = StrOf(Exists(a, item)._id)]_vars

\* C23 (connection reuse): no client exists before the first
\* get_database(); the first call constructs one, no later call constructs
\* another, and every database returned, whatever its name, is a database
\* of that one client.
C23_ConnectionReuse ==
    /\ [](dbs = <<>> => (client = NoClient /\ nclients = 0))
    /\ [](dbs # <<>> =>
            /\ nclients = 1
            /\ client # NoClient
            /\ \A i \in 1..Len(dbs) : dbs[i].client = client)
    /\ [][client # NoClient => client' = client]_vars

\* Three calls, for two different names, were served by the one client.
C23_Witness ==
    /\ Len(dbs) = 3 /\ dbs[1].name = "app1" /\ dbs[2].name = "app2"
    /\ dbs[3].name = "app1"
    /\ nclients = 1 /\ dbs[3].client = dbs[1].client

\* C24 (items behind the sentinel are untouched): the step that takes a
\* StopItem off the queue ends start(), removes only the StopItem and
\* executes nothing; from then until start() is called again the items that
\* were behind it stay on the queue in their order (producers may append)
\* and nothing is executed.
C24_BehindSentinelUntouched ==
    /\ [][(pc = "get" /\ queue # <<>> /\ Head(queue) = StopItem /\ pc' # pc) =>
              /\ pc' = "done" /\ why' = "StopItem"
              /\ queue' = Tail(queue)
              /\ execs' = execs /\ cur' = NoEnv /\ envs' = envs]_vars
    /\ [][(pc = "done" /\ why = "StopItem" /\ pc' = "done") =>
              /\ IsPrefix(queue, queue')
              /\ execs' = execs /\ cur' = NoEnv /\ envs' = envs]_vars

\* e1 was not due and was put back behind the StopItem; start() ended at the
\* StopItem and e1 is still on the queue, not executed.
C24_Witness ==
    /\ runs = 1 /\ puts = 2 /\ q0 = <<"e1", StopItem>>
    /\ pc = "done" /\ why = "StopItem"
    /\ queue = <<"e1">> /\ execs["e1"] = 0

\* C25 (at most one more dequeue after stop): the stop event, once set,
\* stays set; from then on a consumer that is not inside get() never enters
\* get() again, and a consumer that is inside get() leaves it with the item
\* get() returns and does not come back: however the two threads
\* interleave, at most one item is taken after the event is set.  That item
\* is handled as any other (a due envelope within budget is executed, a
\* StopItem ends the loop), and the loop then terminates.
C25_OneDequeueAfterStop ==
    /\ [][stop => stop']_vars
    /\ [][(stop /\ pc # "get") => pc' # "get"]_vars
    /\ [][(stop /\ pc = "get" /\ puts' = puts /\ (queue' # queue \/ pc' # pc)) =>
              /\ queue # <<>>
              /\ pc' # "get"
              /\ Head(queue) = StopItem => pc' = "done"
              /\ \A e \in Envelopes :
                    (Head(queue) = e /\ InBudget(e) /\ now > envs[e].next_attempt)
                        => (cur' = e /\ pc' = "on_start" /\ queue' = Tail(queue))]_vars
    /\ ((stop /\ pc \in Hooks \cup {"check"}) ~> (pc = "done"))

\* The consumer was blocked in get() on the empty queue; the stop event is
\* set and e2 is on the queue: get() is about to return its one item.
C25_Witness ==
    /\ runs = 1 /\ q0 = <<>> /\ puts = 1
    /\ stop /\ pc = "get" /\ queue = <<"e2">>

\* C26 (delayed work is eventually dispatched): while start() is running,
\* an envelope on the queue that is within its budget and whose
\* next_attempt the clock can pass is eventually executed, unless the stop
\* event is set or a StopItem is put on the queue; also when the queue holds
\* nothing but envelopes that are not yet due.
C26_DelayedWorkDispatched ==
    \A e \in Envelopes :
        (/\ Running
         /\ e \in Range(queue)
         /\ InBudget(e)
         /\ envs[e].next_attempt < MaxTime)
            ~> (cur = e \/ stop \/ StopItem \in Range(queue))

\* e1 was the only item and was not due when start() was called; it was
\* cycled until the clock passed its next_attempt and is now executed.
C26_Witness ==
    /\ runs = 1 /\ puts = 1 /\ q0 = <<"e1">> /\ ~stop
    /\ InBudget("e1") /\ t0 <= envs["e1"].next_attempt
    /\ cur = "e1" /\ execs["e1"] = 1 /\ queue = <<>>

TypeOK ==
    /\ queue \in Seq(Items \cup {MockItem})
    /\ stop \in BOOLEAN
    /\ pc \in {"idle", "check", "get", "on_start", "task", "on_stop", "done"}
    /\ cur \in Envelopes \cup {NoEnv}
    /\ ended \in {"", "StopItem", "stop"}
    /\ faults \in 0..MaxFaults
    /\ instance \in 0..MaxCalls
    /\ created \in 0..MaxCalls
    /\ gpc \in [Threads -> {"out", "test", "construct", "assign", "return"}]
    /\ overlapped \in BOOLEAN
====
